---- MODULE Spec2Model ----
(***************************************************************************)
(* Error classification and response mapping of meilisearch-types          *)
(* (src/meilisearch-types/src/error.rs): the Code catalog, the ErrorCode   *)
(* capability and its origin mappings, ResponseError with its wire         *)
(* encoding, and the deserr error builder MeiliDeserError.                  *)
(*                                                                         *)
(* Strings are TLA+ strings, compared character by character.  A TLA+      *)
(* string literal cannot hold the grave accent U+0060, so BQ stands for    *)
(* that character wherever the Rust format strings write it.               *)
(***************************************************************************)
EXTENDS Integers, Sequences, FiniteSets, TLC

\* TLC keeps the fields of a record in the order in which their names first
\* occur in the module.  Every record below is written in the order fixed
\* here, so that each value is built in its normal form.
FieldOrder ==
    [how |-> 1, via |-> 2, err |-> 3, json |-> 4,
     resp |-> 5, origin |-> 6,
     op |-> 7, self_ |-> 8, other |-> 9, error |-> 10, location |-> 11,
     had_self |-> 12, result |-> 13,
     tag |-> 14, value |-> 15,
     family |-> 16, kind |-> 17, sub |-> 18, text |-> 19,
     actual |-> 20, accepted |-> 21, to_string_ok |-> 22, field |-> 23,
     key |-> 24, msg |-> 25,
     bool |-> 26, int |-> 27, str |-> 28, items |-> 29,
     is_origin |-> 30, path |-> 31,
     code |-> 32, message |-> 33, error_code |-> 34,
     status_code |-> 35, error_type |-> 36, error_name |-> 37, error_link |-> 38,
     status |-> 39, type |-> 40, name |-> 41, link |-> 42]

VARIABLES
    resp,         \* the ResponseError value currently held, or NoResp
    origin,       \* how resp was obtained: from_msg / from / deserialize
    body,         \* the JSON body of the last emitted response, or NoBody
    status_line,  \* the HTTP status of the last emitted response
    sent,         \* the value (and its origin) the last response was emitted from
    lookup,       \* the last catalog lookup: the Code and its descriptor
    previous,     \* the catalog lookup before the last one
    deser,        \* Option<MeiliDeserError> carried by the deserializer
    event         \* the last call made on the builder, its arguments and result

vars == <<resp, origin, body, status_line, sent, lookup, previous, deser, event>>

-----------------------------------------------------------------------------
(* The Code catalog                                                        *)

\* actix_web::http::StatusCode, the associated constants the catalog uses
\* and the Default value (200 OK).
StatusCode ==
    [OK |-> 200, BAD_REQUEST |-> 400, UNAUTHORIZED |-> 401, FORBIDDEN |-> 403,
     NOT_FOUND |-> 404, CONFLICT |-> 409, PAYLOAD_TOO_LARGE |-> 413,
     UNSUPPORTED_MEDIA_TYPE |-> 415, INTERNAL_SERVER_ERROR |-> 500]

ErrorType == {"InternalError", "InvalidRequestError", "AuthenticationError"}

\* impl fmt::Display for ErrorType
ErrorType_fmt(self) ==
    CASE self = "InternalError" -> "internal"
      [] self = "InvalidRequestError" -> "invalid_request"
      [] self = "AuthenticationError" -> "auth"

\* pub enum Code
Code == {
    "CreateIndex", "IndexAlreadyExists", "IndexNotFound", "InvalidIndexUid",
    "InvalidMinWordLengthForTypo", "DuplicateIndexFound", "InvalidState", "MissingPrimaryKey",
    "PrimaryKeyAlreadyPresent", "MaxFieldsLimitExceeded", "MissingDocumentId", "InvalidDocumentId",
    "Filter", "Sort", "BadParameter", "BadRequest",
    "DatabaseSizeLimitReached", "DocumentNotFound", "Internal", "InvalidGeoField",
    "InvalidRankingRule", "InvalidStore", "InvalidToken", "MissingAuthorizationHeader",
    "MissingMasterKey", "NoSpaceLeftOnDevice", "DumpNotFound", "InvalidTaskDateFilter",
    "InvalidTaskStatusesFilter", "InvalidTaskTypesFilter", "InvalidTaskCanceledByFilter", "InvalidTaskUidsFilter",
    "TaskNotFound", "TaskDeletionWithEmptyQuery", "TaskCancelationWithEmptyQuery", "PayloadTooLarge",
    "RetrieveDocument", "SearchDocuments", "UnsupportedMediaType", "DumpAlreadyInProgress",
    "DumpProcessFailed", "UnretrievableErrorCode", "InvalidContentType", "MissingContentType",
    "MalformedPayload", "MissingPayload", "ApiKeyNotFound", "MissingParameter",
    "InvalidApiKeyActions", "InvalidApiKeyIndexes", "InvalidApiKeyExpiresAt", "InvalidApiKeyDescription",
    "InvalidApiKeyName", "InvalidApiKeyUid", "ImmutableField", "ApiKeyAlreadyExists"
}

\* struct ErrCode and its three constructors
authentication_as_invalid(error_name, status_code) ==
    [status_code |-> status_code, error_type |-> "InvalidRequestError",
     error_name |-> error_name]

authentication(error_name, status_code) ==
    [status_code |-> status_code, error_type |-> "AuthenticationError",
     error_name |-> error_name]

internal(error_name, status_code) ==
    [status_code |-> status_code, error_type |-> "InternalError",
     error_name |-> error_name]

invalid(error_name, status_code) ==
    [status_code |-> status_code, error_type |-> "InvalidRequestError",
     error_name |-> error_name]

\* Code::err_code: one arm per variant, no fallback arm
err_code(self) ==
    CASE self = "CreateIndex" -> internal("index_creation_failed", StatusCode.INTERNAL_SERVER_ERROR)
      [] self = "IndexAlreadyExists" -> invalid("index_already_exists", StatusCode.CONFLICT)
      [] self = "IndexNotFound" -> invalid("index_not_found", StatusCode.NOT_FOUND)
      [] self = "InvalidIndexUid" -> invalid("invalid_index_uid", StatusCode.BAD_REQUEST)
      [] self = "InvalidState" -> internal("invalid_state", StatusCode.INTERNAL_SERVER_ERROR)
      [] self = "MissingPrimaryKey" -> invalid("primary_key_inference_failed", StatusCode.BAD_REQUEST)
      [] self = "PrimaryKeyAlreadyPresent" -> invalid("index_primary_key_already_exists", StatusCode.BAD_REQUEST)
      [] self = "InvalidRankingRule" -> invalid("invalid_ranking_rule", StatusCode.BAD_REQUEST)
      [] self = "InvalidStore" -> internal("invalid_store_file", StatusCode.INTERNAL_SERVER_ERROR)
      [] self = "MaxFieldsLimitExceeded" -> invalid("max_fields_limit_exceeded", StatusCode.BAD_REQUEST)
      [] self = "MissingDocumentId" -> invalid("missing_document_id", StatusCode.BAD_REQUEST)
      [] self = "InvalidDocumentId" -> invalid("invalid_document_id", StatusCode.BAD_REQUEST)
      [] self = "Filter" -> invalid("invalid_filter", StatusCode.BAD_REQUEST)
      [] self = "Sort" -> invalid("invalid_sort", StatusCode.BAD_REQUEST)
      [] self = "BadParameter" -> invalid("bad_parameter", StatusCode.BAD_REQUEST)
      [] self = "BadRequest" -> invalid("bad_request", StatusCode.BAD_REQUEST)
      [] self = "DatabaseSizeLimitReached" -> internal("database_size_limit_reached", StatusCode.INTERNAL_SERVER_ERROR)
      [] self = "DocumentNotFound" -> invalid("document_not_found", StatusCode.NOT_FOUND)
      [] self = "Internal" -> internal("internal", StatusCode.INTERNAL_SERVER_ERROR)
      [] self = "InvalidGeoField" -> invalid("invalid_geo_field", StatusCode.BAD_REQUEST)
      [] self = "InvalidToken" -> authentication("invalid_api_key", StatusCode.FORBIDDEN)
      [] self = "MissingAuthorizationHeader" -> authentication("missing_authorization_header", StatusCode.UNAUTHORIZED)
      [] self = "MissingMasterKey" -> authentication("missing_master_key", StatusCode.UNAUTHORIZED)
      [] self = "InvalidTaskDateFilter" -> invalid("invalid_task_date_filter", StatusCode.BAD_REQUEST)
      [] self = "InvalidTaskUidsFilter" -> invalid("invalid_task_uids_filter", StatusCode.BAD_REQUEST)
      [] self = "InvalidTaskStatusesFilter" -> invalid("invalid_task_statuses_filter", StatusCode.BAD_REQUEST)
      [] self = "InvalidTaskTypesFilter" -> invalid("invalid_task_types_filter", StatusCode.BAD_REQUEST)
      [] self = "InvalidTaskCanceledByFilter" -> invalid("invalid_task_canceled_by_filter", StatusCode.BAD_REQUEST)
      [] self = "TaskNotFound" -> invalid("task_not_found", StatusCode.NOT_FOUND)
      [] self = "TaskDeletionWithEmptyQuery" -> invalid("missing_task_filters", StatusCode.BAD_REQUEST)
      [] self = "TaskCancelationWithEmptyQuery" -> invalid("missing_task_filters", StatusCode.BAD_REQUEST)
      [] self = "DumpNotFound" -> invalid("dump_not_found", StatusCode.NOT_FOUND)
      [] self = "NoSpaceLeftOnDevice" -> internal("no_space_left_on_device", StatusCode.INTERNAL_SERVER_ERROR)
      [] self = "PayloadTooLarge" -> invalid("payload_too_large", StatusCode.PAYLOAD_TOO_LARGE)
      [] self = "RetrieveDocument" -> internal("unretrievable_document", StatusCode.BAD_REQUEST)
      [] self = "SearchDocuments" -> internal("search_error", StatusCode.BAD_REQUEST)
      [] self = "UnsupportedMediaType" -> invalid("unsupported_media_type", StatusCode.UNSUPPORTED_MEDIA_TYPE)
      [] self = "DumpAlreadyInProgress" -> invalid("dump_already_processing", StatusCode.CONFLICT)
      [] self = "DumpProcessFailed" -> internal("dump_process_failed", StatusCode.INTERNAL_SERVER_ERROR)
      [] self = "MissingContentType" -> invalid("missing_content_type", StatusCode.UNSUPPORTED_MEDIA_TYPE)
      [] self = "MalformedPayload" -> invalid("malformed_payload", StatusCode.BAD_REQUEST)
      [] self = "InvalidContentType" -> invalid("invalid_content_type", StatusCode.UNSUPPORTED_MEDIA_TYPE)
      [] self = "MissingPayload" -> invalid("missing_payload", StatusCode.BAD_REQUEST)
      [] self = "UnretrievableErrorCode" -> invalid("unretrievable_error_code", StatusCode.BAD_REQUEST)
      [] self = "ApiKeyNotFound" -> invalid("api_key_not_found", StatusCode.NOT_FOUND)
      [] self = "MissingParameter" -> invalid("missing_parameter", StatusCode.BAD_REQUEST)
      [] self = "InvalidApiKeyActions" -> invalid("invalid_api_key_actions", StatusCode.BAD_REQUEST)
      [] self = "InvalidApiKeyIndexes" -> invalid("invalid_api_key_indexes", StatusCode.BAD_REQUEST)
      [] self = "InvalidApiKeyExpiresAt" -> invalid("invalid_api_key_expires_at", StatusCode.BAD_REQUEST)
      [] self = "InvalidApiKeyDescription" -> invalid("invalid_api_key_description", StatusCode.BAD_REQUEST)
      [] self = "InvalidApiKeyName" -> invalid("invalid_api_key_name", StatusCode.BAD_REQUEST)
      [] self = "InvalidApiKeyUid" -> invalid("invalid_api_key_uid", StatusCode.BAD_REQUEST)
      [] self = "ApiKeyAlreadyExists" -> invalid("api_key_already_exists", StatusCode.CONFLICT)
      [] self = "ImmutableField" -> invalid("immutable_field", StatusCode.BAD_REQUEST)
      [] self = "InvalidMinWordLengthForTypo" -> invalid("invalid_min_word_length_for_typo", StatusCode.BAD_REQUEST)
      [] self = "DuplicateIndexFound" -> invalid("duplicate_index_found", StatusCode.BAD_REQUEST)

http(self) == err_code(self).status_code

name(self) == err_code(self).error_name

type_(self) == ErrorType_fmt(err_code(self).error_type)

url(self) == "https://docs.meilisearch.com/errors#" \o name(self)

-----------------------------------------------------------------------------
(* Error values of the three origins and of the builder                    *)

\* The rendering (Display) of milli::Error, HeedError and JoinError is
\* produced by their crates; an error value carries it as its text.
ErrTexts == {"disk failure", "Index \"movies\" not found."}

NoSub == "-"

UserError == {
    "SerdeJson", "InvalidLmdbOpenOptions", "DocumentLimitReached",
    "AccessingSoftDeletedDocument", "UnknownInternalDocumentId",
    "InvalidStoreFile", "NoSpaceLeftOnDevice", "MaxDatabaseSizeReached",
    "AttributeLimitReached", "InvalidFilter", "MissingDocumentId",
    "InvalidDocumentId", "TooManyDocumentIds", "MissingPrimaryKey",
    "PrimaryKeyCannotBeChanged", "SortRankingRuleMissing",
    "InvalidFacetsDistribution", "InvalidSortableAttribute", "CriterionError",
    "InvalidGeoField", "SortError", "InvalidMinTypoWordLenSetting"
}

MdbError == {
    "KeyExist", "NotFound", "PageNotFound", "Corrupted", "Panic",
    "VersionMismatch", "Invalid", "MapFull", "DbsFull", "ReadersFull",
    "TxnFull", "CursorFull", "PageFull", "MapResized", "Incompatible",
    "BadRslot", "BadTxn", "BadValSize", "BadDbi", "Other"
}

HeedErrorKinds == {"Io", "Mdb", "Encoding", "Decoding", "InvalidDatabaseTyping",
                   "DatabaseClosing", "BadOpenOptions"}

JoinErrors ==
    [family : {"JoinError"}, kind : {"JoinError"}, sub : {NoSub}, text : ErrTexts]

MilliErrors ==
    [family : {"milli"}, kind : {"InternalError", "IoError"}, sub : {NoSub},
     text : ErrTexts]
    \cup [family : {"milli"}, kind : {"UserError"}, sub : UserError, text : ErrTexts]

HeedErrors ==
    [family : {"heed"}, kind : HeedErrorKinds \ {"Mdb"}, sub : {NoSub}, text : ErrTexts]
    \cup [family : {"heed"}, kind : {"Mdb"}, sub : MdbError, text : ErrTexts]

\* pub struct MeiliDeserError(String)
MeiliDeserError(message) ==
    [family |-> "MeiliDeserError", kind |-> "MeiliDeserError", sub |-> NoSub,
     text |-> message]

\* impl ErrorCode for JoinError
JoinError_error_code(self) == "Internal"

\* impl ErrorCode for milli::Error: the inner match over UserError
user_error_code(error) ==
    CASE error \in {"SerdeJson", "InvalidLmdbOpenOptions", "DocumentLimitReached",
                    "AccessingSoftDeletedDocument", "UnknownInternalDocumentId"} ->
           "Internal"
      [] error = "InvalidStoreFile" -> "InvalidStore"
      [] error = "NoSpaceLeftOnDevice" -> "NoSpaceLeftOnDevice"
      [] error = "MaxDatabaseSizeReached" -> "DatabaseSizeLimitReached"
      [] error = "AttributeLimitReached" -> "MaxFieldsLimitExceeded"
      [] error = "InvalidFilter" -> "Filter"
      [] error = "MissingDocumentId" -> "MissingDocumentId"
      [] error \in {"InvalidDocumentId", "TooManyDocumentIds"} -> "InvalidDocumentId"
      [] error = "MissingPrimaryKey" -> "MissingPrimaryKey"
      [] error = "PrimaryKeyCannotBeChanged" -> "PrimaryKeyAlreadyPresent"
      [] error = "SortRankingRuleMissing" -> "Sort"
      [] error = "InvalidFacetsDistribution" -> "BadRequest"
      [] error = "InvalidSortableAttribute" -> "Sort"
      [] error = "CriterionError" -> "InvalidRankingRule"
      [] error = "InvalidGeoField" -> "InvalidGeoField"
      [] error = "SortError" -> "Sort"
      [] error = "InvalidMinTypoWordLenSetting" -> "InvalidMinWordLengthForTypo"

milli_error_code_no_space_internal(self) ==
    CASE self.kind = "InternalError" -> "Internal"
      [] self.kind = "IoError" -> "Internal"
      [] self.kind = "UserError" ->
           IF self.sub = "NoSpaceLeftOnDevice" THEN "Internal"
           ELSE user_error_code(self.sub)

\* impl ErrorCode for milli::Error: the outer match
milli_error_code(self) ==
    CASE self.kind = "InternalError" -> "Internal"
      [] self.kind = "IoError" -> "Internal"
      [] self.kind = "UserError" -> user_error_code(self.sub)

heed_error_code_generic_first(self) ==
    IF self.kind \in {"Io", "Mdb", "Encoding", "Decoding", "InvalidDatabaseTyping",
                      "DatabaseClosing", "BadOpenOptions"} THEN "Internal"
    ELSE IF self.kind = "Mdb" /\ self.sub = "MapFull" THEN "DatabaseSizeLimitReached"
    ELSE IF self.kind = "Mdb" /\ self.sub = "Invalid" THEN "InvalidStore"
    ELSE "unreachable"

\* impl ErrorCode for HeedError: the arms are tried in the order written
heed_error_code(self) ==
    IF self.kind = "Mdb" /\ self.sub = "MapFull" THEN "DatabaseSizeLimitReached"
    ELSE IF self.kind = "Mdb" /\ self.sub = "Invalid" THEN "InvalidStore"
    ELSE IF self.kind \in {"Io", "Mdb", "Encoding", "Decoding",
                           "InvalidDatabaseTyping", "DatabaseClosing",
                           "BadOpenOptions"} THEN "Internal"
    ELSE "unreachable"

MeiliDeserError_error_code_bad_request(self) == "BadRequest"

\* impl ErrorCode for MeiliDeserError
MeiliDeserError_error_code(self) == "MalformedPayload"

\* trait ErrorCode: error_code is supplied by the implementing type
error_code(self) ==
    CASE self.family = "JoinError" -> JoinError_error_code(self)
      [] self.family = "milli" -> milli_error_code(self)
      [] self.family = "heed" -> heed_error_code(self)
      [] self.family = "MeiliDeserError" -> MeiliDeserError_error_code(self)

\* trait ErrorCode: the provided methods
http_status(self) == http(error_code(self))

error_url(self) == url(error_code(self))

error_name(self) == name(error_code(self))

error_type(self) == type_(error_code(self))

\* Display of an error value; MeiliDeserError writes self.0
to_string(self) == self.text

-----------------------------------------------------------------------------
(* ResponseError                                                           *)

NoResp == [none |-> "ResponseError"]

NoBody == <<>>

NoStatus == 0

\* ResponseError::from_msg
from_msg(message, code) ==
    [code |-> http(code),
     message |-> message,
     error_code |-> err_code(code).error_name,
     error_type |-> type_(code),
     error_link |-> url(code)]

from_with_fixed_status(other) ==
    [code |-> StatusCode.INTERNAL_SERVER_ERROR,
     message |-> to_string(other),
     error_code |-> error_name(other),
     error_type |-> error_type(other),
     error_link |-> error_url(other)]

\* impl<T: ErrorCode> From<T> for ResponseError
from(other) ==
    [code |-> http_status(other),
     message |-> to_string(other),
     error_code |-> error_name(other),
     error_type |-> error_type(other),
     error_link |-> error_url(other)]

\* impl fmt::Display for ResponseError
ResponseError_fmt(self) == self.message

serialize_without_renames(self) ==
    << <<"message", self.message>>,
       <<"errorCode", self.error_code>>,
       <<"errorType", self.error_type>>,
       <<"errorLink", self.error_link>> >>

\* derive(Serialize) with the per-field renames: a JSON object is the
\* sequence of its <<key, value>> members; the status is skipped, the other
\* fields are written in declaration order under their wire names
serialize(self) ==
    << <<"message", self.message>>,
       <<"code", self.error_code>>,
       <<"type", self.error_type>>,
       <<"link", self.error_link>> >>

\* the members of a JSON object that carry a key
members(json, k) == { i \in DOMAIN json : json[i][1] = k }

\* the value of the member that carries a key
get(json, k) == json[CHOOSE i \in members(json, k) : TRUE][2]

\* derive(Deserialize) succeeds when each of the four fields occurs once;
\* members under other keys are ignored
decodable(json) ==
    \A k \in {"message", "code", "type", "link"} : Cardinality(members(json, k)) = 1

\* derive(Deserialize): the skipped status takes StatusCode::default()
deserialize(json) ==
    [code |-> StatusCode.OK,
     message |-> get(json, "message"),
     error_code |-> get(json, "code"),
     error_type |-> get(json, "type"),
     error_link |-> get(json, "link")]

\* aweb::error::ResponseError::status_code
status_code_of(self) == self.code

-----------------------------------------------------------------------------
(* The deserr error builder                                                *)

\* stands for the grave accent of the format strings
BQ == "'"

\* longest accepted list the events carry
MaxAccepted == 2

None == [tag |-> "None"]

Some(v) == [tag |-> "Some", value |-> v]

Err(v) == [tag |-> "Err", value |-> v]

\* deserr::ValueKind and its Display
ValueKind == {"Null", "Boolean", "Integer", "NegativeInteger", "Float", "String",
              "Sequence", "Map"}

ValueKind_fmt(kind) ==
    CASE kind = "Null" -> "Null"
      [] kind = "Boolean" -> "Boolean"
      [] kind = "Integer" -> "Integer"
      [] kind = "NegativeInteger" -> "NegativeInteger"
      [] kind = "Float" -> "Float"
      [] kind = "String" -> "String"
      [] kind = "Sequence" -> "Sequence"
      [] kind = "Map" -> "Map"

RECURSIVE join(_, _)
\* Vec<String>::join(sep)
join(strings, sep) ==
    IF strings = <<>> THEN ""
    ELSE IF Len(strings) = 1 THEN strings[1]
    ELSE strings[1] \o sep \o join(Tail(strings), sep)

\* decimal rendering of an unsigned integer
Digit(d) == SubSeq("0123456789", d + 1, d + 1)

RECURSIVE Decimal(_)
Decimal(n) == IF n < 10 THEN Digit(n) ELSE Decimal(n \div 10) \o Digit(n % 10)

RECURSIVE escape(_)
\* serde_json writes a string with its quotes and backslashes escaped
escape(str) ==
    IF str = "" THEN ""
    ELSE LET c == SubSeq(str, 1, 1)
             rest == escape(SubSeq(str, 2, Len(str)))
         IN  IF c = "\"" THEN "\\\"" \o rest
             ELSE IF c = "\\" THEN "\\\\" \o rest
             ELSE c \o rest

RECURSIVE to_json(_)
\* serde_json::to_string(&serde_json::Value::from(actual)), compact form
to_json(value) ==
    CASE value.kind = "Null" -> "null"
      [] value.kind = "Boolean" -> (IF value.bool THEN "true" ELSE "false")
      [] value.kind = "Integer" -> Decimal(value.int)
      [] value.kind = "NegativeInteger" -> "-" \o Decimal(value.int)
      [] value.kind = "String" -> "\"" \o escape(value.str) \o "\""
      [] value.kind = "Sequence" ->
           "[" \o join([i \in 1..Len(value.items) |-> to_json(value.items[i])], ",")
               \o "]"
      [] value.kind = "Map" -> "{}"

\* the values an IncorrectValueKind event reports as actual
ActualValues ==
    { [kind |-> "Boolean", bool |-> TRUE],
      [kind |-> "Integer", int |-> 42],
      [kind |-> "String", str |-> "do\"ggo"],
      [kind |-> "String", str |-> ", expected a String"],
      [kind |-> "Sequence", items |-> << [kind |-> "NegativeInteger", int |-> 7],
                                         [kind |-> "Null"] >>] }

\* the lists of at most n elements that start one of the given lists
Prefixes(lists, n) == { SubSeq(l, 1, k) : l \in lists, k \in 0..n }

AcceptedKinds ==
    Prefixes({<<"String", "Integer", "Sequence", "Map">>,
              <<"Integer", "String", "Null", "Float">>}, MaxAccepted)

AcceptedKeys ==
    Prefixes({<<"a", "b", "c", "d">>, <<"b", "a", "d", "c">>}, MaxAccepted)

\* deserr::ValuePointerRef: whether it is the origin, and the text its owned
\* form displays
Locations ==
    { [is_origin |-> TRUE, path |-> ""],
      [is_origin |-> FALSE, path |-> "settings"],
      [is_origin |-> FALSE, path |-> ".a, expected a String[0]"] }

\* deserr::ErrorKind<V>
IncorrectValueKinds ==
    { [kind |-> "IncorrectValueKind", actual |-> v, accepted |-> acc, to_string_ok |-> ok] :
        v \in ActualValues, acc \in AcceptedKinds, ok \in BOOLEAN }

MissingFields == { [kind |-> "MissingField", field |-> f] : f \in {"id", "a.b"} }

UnknownKeys ==
    { [kind |-> "UnknownKey", accepted |-> acc, key |-> k] :
        k \in {"fpp", "q."}, acc \in AcceptedKeys }

Unexpecteds ==
    { [kind |-> "Unexpected", msg |-> m] :
        m \in {"trailing characters at line 1 column 19", "EOF."} }

ErrorKind == IncorrectValueKinds \cup MissingFields \cup UnknownKeys \cup Unexpecteds

location_clause_without_path(location) == "."

\* the location clause every message ends with
location_clause(location) ==
    IF location.is_origin THEN "."
    ELSE " in " \o BQ \o location.path \o BQ \o "."

expected_clause_one_of_for_one(accepted) ==
    CASE Len(accepted) = 0 -> ""
      [] OTHER ->
           ", expected one of "
               \o join([i \in 1..Len(accepted) |-> ValueKind_fmt(accepted[i])], ", ")

\* the expectation clause of IncorrectValueKind
expected_clause(accepted) ==
    CASE Len(accepted) = 0 -> ""
      [] Len(accepted) = 1 -> ", expected a " \o ValueKind_fmt(accepted[1])
      [] OTHER ->
           ", expected one of "
               \o join([i \in 1..Len(accepted) |-> ValueKind_fmt(accepted[i])], ", ")

\* the received value of IncorrectValueKind: printed only if it serializes
received_text(err) ==
    IF err.to_string_ok THEN BQ \o to_json(err.actual) \o BQ ELSE ""

accepted_keys_list_unquoted(accepted) == join(accepted, ", ")

\* the accepted keys of UnknownKey, each between grave accents
accepted_keys_list(accepted) ==
    join([i \in 1..Len(accepted) |-> BQ \o accepted[i] \o BQ], ", ")

\* impl deserr::DeserializeError for MeiliDeserError: error
error(self_, err, location) ==
    LET loc == location_clause(location) IN
    CASE err.kind = "IncorrectValueKind" ->
           Err(MeiliDeserError(
               "Json deserialize error: invalid type: " \o ValueKind_fmt(err.actual.kind)
                   \o " " \o received_text(err) \o expected_clause(err.accepted) \o loc))
      [] err.kind = "MissingField" ->
           Err(MeiliDeserError(
               "Json deserialize error: missing field " \o BQ \o err.field \o BQ \o loc))
      [] err.kind = "UnknownKey" ->
           Err(MeiliDeserError(
               "Json deserialize error: unknown field " \o BQ \o err.key \o BQ
                   \o ", expected one of " \o accepted_keys_list(err.accepted) \o loc))
      [] err.kind = "Unexpected" ->
           Err(MeiliDeserError(
               "The json payload provided is malformed: " \o err.msg \o loc))

merge_keeps_first(self_, other, merge_location) ==
    IF self_ = None THEN Err(other) ELSE Err(self_.value)

\* impl deserr::MergeWithError<MeiliDeserError> for MeiliDeserError: merge
merge(self_, other, merge_location) == Err(other)

-----------------------------------------------------------------------------
(* State machine                                                           *)

NoOrigin == [how |-> "none"]

NoSent == [none |-> "sent"]

NoLookup == [none |-> "lookup"]

NoEvent == [op |-> "none"]

\* messages handed to from_msg by callers
Messages == {"Index 'movies' not found.", ""}

\* bodies that reach the decoder from outside: one this encoder writes, one
\* whose link names another error, one of an unknown error with its members
\* in another order and one more member, and one without a link
ForeignBodies ==
    { << <<"message", "Index 'movies' not found.">>, <<"code", "index_not_found">>,
         <<"type", "invalid_request">>,
         <<"link", "https://docs.meilisearch.com/errors#index_not_found">> >>,
      << <<"message", "Index 'movies' not found.">>, <<"code", "index_not_found">>,
         <<"type", "invalid_request">>,
         <<"link", "https://docs.meilisearch.com/errors#document_not_found">> >>,
      << <<"link", "">>, <<"type", "internal">>, <<"status", "500">>,
         <<"code", "shiny_new_error">>, <<"message", "">> >>,
      << <<"message", "">>, <<"code", "internal">>, <<"type", "internal">> >> }

\* errors of the builder that reach merge as the right-hand value
MergeInputs ==
    { error(None, err, location).value :
        err \in MissingFields, location \in {l \in Locations : l.path # "settings"} }

Init ==
    /\ resp = NoResp
    /\ origin = NoOrigin
    /\ body = NoBody
    /\ status_line = NoStatus
    /\ sent = NoSent
    /\ lookup = NoLookup
    /\ previous = NoLookup
    /\ deser = None
    /\ event = NoEvent

\* A ResponseError is built for a new failure: nothing is emitted for it yet.
Built(value, how) ==
    /\ resp' = value
    /\ origin' = how
    /\ body' = NoBody
    /\ status_line' = NoStatus
    /\ sent' = NoSent
    /\ UNCHANGED <<lookup, previous, deser, event>>

\* ResponseError::from_msg(message, code)
FromMsg(message, code) ==
    Built(from_msg(message, code), [how |-> "from_msg", code |-> code])

\* ResponseError::from(other) for an error of one of the three origins
FromError(other) ==
    Built(from(other),
          [how |-> "from", via |-> "origin", err |-> other, code |-> error_code(other)])

\* ResponseError::from(e) for the error the builder returns for an event
FromDeserError(err, location) ==
    LET e == error(None, err, location).value IN
    Built(from(e),
          [how |-> "from", via |-> err.kind, err |-> e, code |-> error_code(e)])

\* ResponseError::from(e) for the error a merge of builder errors returns
FromMergedDeserError(self_, other, location) ==
    LET e == merge(self_, other, location).value IN
    Built(from(e),
          [how |-> "from", via |-> "merge", err |-> e, code |-> error_code(e)])

\* aweb::error::ResponseError::error_response
ErrorResponse ==
    /\ resp # NoResp
    /\ body' = serialize(resp)
    /\ status_line' = status_code_of(resp)
    /\ sent' = [resp |-> resp, origin |-> origin]
    /\ UNCHANGED <<resp, origin, lookup, previous, deser, event>>

\* serde decoding of a body into a ResponseError
Deserialize(json) ==
    /\ decodable(json)
    /\ resp' = deserialize(json)
    /\ origin' = [how |-> "deserialize", json |-> json]
    /\ UNCHANGED <<body, status_line, sent, lookup, previous, deser, event>>

Next ==
    \/ \E message \in Messages, code \in Code : FromMsg(message, code)
    \/ \E other \in JoinErrors \cup MilliErrors \cup HeedErrors : FromError(other)
    \/ \E err \in ErrorKind, location \in Locations : FromDeserError(err, location)
    \/ \E self_ \in {None} \cup {Some(e) : e \in MergeInputs},
          other \in MergeInputs, location \in Locations :
            FromMergedDeserError(self_, other, location)
    \/ ErrorResponse
    \/ \E json \in ForeignBodies \cup ({body} \ {NoBody}) : Deserialize(json)

Spec == Init /\ [][Next]_vars

\* One lookup in the catalog: every derived accessor of the chosen Code
Lookup(code) ==
    /\ previous' = lookup
    /\ lookup' = [code |-> code,
                  status |-> http(code),
                  type |-> type_(code),
                  name |-> name(code),
                  link |-> url(code)]
    /\ UNCHANGED <<resp, origin, body, status_line, sent, deser, event>>

NextCatalog == \E code \in Code : Lookup(code)

SpecCatalog == Init /\ [][NextCatalog]_vars

\* The deserializer reports an event: DeserializeError::error
BuildError(err, location) ==
    LET result == error(deser, err, location) IN
    /\ deser' = Some(result.value)
    /\ event' = [op |-> "error", error |-> err, location |-> location,
                 had_self |-> (deser # None), result |-> result]
    /\ UNCHANGED <<resp, origin, body, status_line, sent, lookup, previous>>

\* The deserializer merges an inner error: MergeWithError::merge
MergeError(other, location) ==
    LET result == merge(deser, other, location) IN
    /\ deser' = Some(result.value)
    /\ event' = [op |-> "merge", self_ |-> deser, other |-> other,
                 location |-> location, result |-> result]
    /\ UNCHANGED <<resp, origin, body, status_line, sent, lookup, previous>>

NextDeser ==
    \/ \E err \in ErrorKind, location \in Locations : BuildError(err, location)
    \/ \E other \in MergeInputs, location \in Locations : MergeError(other, location)

SpecDeser == Init /\ [][NextDeser]_vars

-----------------------------------------------------------------------------
(* Properties                                                              *)

DocsBase == "https://docs.meilisearch.com/errors#"

\* C1: every ResponseError the program holds, however it was obtained
\* (from_msg, conversion from an error, or decoding a body), has
\* error_link = the documentation base followed by error_code.
C1_LinkDerivedFromErrorCode ==
    resp # NoResp => resp.error_link = DocsBase \o resp.error_code

\* C2: the catalog gives the five documented (status, type, name) triples,
\* every lookup has one of the three types, and looking the same Code up
\* again gives the same triple.
C2_CatalogTriples ==
    lookup # NoLookup =>
        LET triple(l) == <<l.status, l.type, l.name>> IN
        /\ lookup.code = "IndexNotFound" =>
               triple(lookup) = <<404, "invalid_request", "index_not_found">>
        /\ lookup.code = "DatabaseSizeLimitReached" =>
               triple(lookup) = <<500, "internal", "database_size_limit_reached">>
        /\ lookup.code = "MissingMasterKey" =>
               triple(lookup) = <<401, "auth", "missing_master_key">>
        /\ lookup.code = "InvalidToken" =>
               triple(lookup) = <<403, "auth", "invalid_api_key">>
        /\ lookup.code = "PayloadTooLarge" =>
               triple(lookup) = <<413, "invalid_request", "payload_too_large">>
        /\ lookup.type \in {"internal", "invalid_request", "auth"}
        /\ (previous # NoLookup /\ previous.code = lookup.code) =>
               triple(previous) = triple(lookup)

\* C2 witness: MissingMasterKey looked up twice in a row.
C2_Witness ==
    /\ lookup # NoLookup
    /\ previous # NoLookup
    /\ lookup.code = "MissingMasterKey"
    /\ previous.code = "MissingMasterKey"

\* the table of C3, as the specification states it
C3_Table(e) ==
    IF e.kind \in {"InternalError", "IoError"} THEN "Internal"
    ELSE CASE e.sub = "SerdeJson" -> "Internal"
           [] e.sub = "InvalidLmdbOpenOptions" -> "Internal"
           [] e.sub = "DocumentLimitReached" -> "Internal"
           [] e.sub = "AccessingSoftDeletedDocument" -> "Internal"
           [] e.sub = "UnknownInternalDocumentId" -> "Internal"
           [] e.sub = "InvalidStoreFile" -> "InvalidStore"
           [] e.sub = "NoSpaceLeftOnDevice" -> "NoSpaceLeftOnDevice"
           [] e.sub = "MaxDatabaseSizeReached" -> "DatabaseSizeLimitReached"
           [] e.sub = "AttributeLimitReached" -> "MaxFieldsLimitExceeded"
           [] e.sub = "InvalidFilter" -> "Filter"
           [] e.sub = "MissingDocumentId" -> "MissingDocumentId"
           [] e.sub = "InvalidDocumentId" -> "InvalidDocumentId"
           [] e.sub = "TooManyDocumentIds" -> "InvalidDocumentId"
           [] e.sub = "MissingPrimaryKey" -> "MissingPrimaryKey"
           [] e.sub = "PrimaryKeyCannotBeChanged" -> "PrimaryKeyAlreadyPresent"
           [] e.sub = "SortRankingRuleMissing" -> "Sort"
           [] e.sub = "InvalidSortableAttribute" -> "Sort"
           [] e.sub = "SortError" -> "Sort"
           [] e.sub = "InvalidFacetsDistribution" -> "BadRequest"
           [] e.sub = "CriterionError" -> "InvalidRankingRule"
           [] e.sub = "InvalidGeoField" -> "InvalidGeoField"
           [] e.sub = "InvalidMinTypoWordLenSetting" -> "InvalidMinWordLengthForTypo"

\* C3: a storage/search-engine error reports the Code of the two-level
\* table, and the response built from it carries that Code's name; a "no
\* space left on device" error gives status 500, code
\* "no_space_left_on_device" and type "internal".
C3_MilliErrorCodes ==
    (origin.how = "from" /\ origin.err.family = "milli") =>
        /\ origin.code = C3_Table(origin.err)
        /\ resp.error_code = name(C3_Table(origin.err))
        /\ origin.err.sub = "NoSpaceLeftOnDevice" =>
               /\ resp.code = 500
               /\ resp.error_code = "no_space_left_on_device"
               /\ resp.error_type = "internal"
               /\ resp.message = origin.err.text

\* C3 witness: a response built from a "no space left on device" error.
C3_Witness ==
    /\ origin.how = "from"
    /\ origin.err.family = "milli"
    /\ origin.err.sub = "NoSpaceLeftOnDevice"
    /\ resp.code = 500

\* C4: an embedded-store error reports DatabaseSizeLimitReached for "map
\* full", InvalidStore for "invalid" and Internal for every other sub-kind;
\* the generic store-fault arm never takes "map full" or "invalid".
C4_HeedErrorCodes ==
    (origin.how = "from" /\ origin.err.family = "heed") =>
        LET e == origin.err IN
        /\ (e.kind = "Mdb" /\ e.sub = "MapFull") =>
               (origin.code = "DatabaseSizeLimitReached"
                   /\ resp.error_code = "database_size_limit_reached")
        /\ (e.kind = "Mdb" /\ e.sub = "Invalid") =>
               (origin.code = "InvalidStore" /\ resp.error_code = "invalid_store_file")
        /\ ~(e.kind = "Mdb" /\ e.sub \in {"MapFull", "Invalid"}) =>
               (origin.code = "Internal" /\ resp.error_code = "internal")

\* C4 witness: a response built from a "map full" store error.
C4_Witness ==
    /\ origin.how = "from"
    /\ origin.err.family = "heed"
    /\ origin.err.kind = "Mdb"
    /\ origin.err.sub = "MapFull"
    /\ resp.error_code = "database_size_limit_reached"

\* C5: every error of the builder, for each event kind and location, and
\* every error a merge returns, reports MalformedPayload: the response built
\* from it has status 400, code "malformed_payload", type "invalid_request".
C5_BuilderErrorsAreMalformedPayload ==
    (origin.how = "from" /\ origin.err.family = "MeiliDeserError") =>
        /\ origin.code = "MalformedPayload"
        /\ resp.code = 400
        /\ resp.error_code = "malformed_payload"
        /\ resp.error_type = "invalid_request"

\* C5 witness: a response built from the error a merge returned.
C5_Witness ==
    /\ origin.how = "from"
    /\ origin.via = "merge"
    /\ origin.err.family = "MeiliDeserError"
    /\ resp.code = 400

\* C6: merge is last-error-wins: whatever the earlier value (absent or
\* present) and the merge location, merge returns the later value unchanged
\* as an error outcome, and the deserializer then holds exactly that error.
C6_MergeLastErrorWins ==
    event.op = "merge" =>
        /\ event.result.tag = "Err"
        /\ event.result.value = event.other
        /\ event.result.value.text = event.other.text
        /\ deser = Some(event.other)

\* C6 witness: a merge onto an earlier error with another message, itself
\* the result of a merge or of the builder.
C6_Witness ==
    /\ event.op = "merge"
    /\ event.self_ # None
    /\ event.self_.value.text # event.other.text
    /\ ~event.location.is_origin
    /\ deser = Some(event.other)

\* the four strings of a ResponseError
FourStrings(r) == <<r.message, r.error_code, r.error_type, r.error_link>>

RECURSIVE JoinedFromRight(_, _)
\* the elements of a list separated by sep, stated from the last element
JoinedFromRight(list, sep) ==
    IF Len(list) = 0 THEN ""
    ELSE IF Len(list) = 1 THEN list[1]
    ELSE JoinedFromRight(SubSeq(list, 1, Len(list) - 1), sep) \o sep \o list[Len(list)]

\* the number of places at which pattern occurs in text
Occurrences(pattern, text) ==
    Cardinality({ i \in 1..(Len(text) - Len(pattern) + 1) :
                    SubSeq(text, i, i + Len(pattern) - 1) = pattern })

EndsWith(text, suffix) ==
    /\ Len(suffix) <= Len(text)
    /\ SubSeq(text, Len(text) - Len(suffix) + 1, Len(text)) = suffix

\* the location clause as the specification states it
LocationClause(location) ==
    IF location.is_origin THEN "." ELSE " in " \o BQ \o location.path \o BQ \o "."

\* the message of the last builder call
BuiltMessage == event.result.value.text

\* C8: for an incorrect-value-kind event the message is the base text with
\* the actual kind and the received value, then the expectation clause
\* (nothing, ", expected a X" or ", expected one of X, Y, ..."), then the
\* location clause; the builder writes the expectation clause at most once;
\* the received value is the back-quoted re-serialized value, or nothing
\* when re-serialization fails.
C8_IncorrectValueKindMessage ==
    (event.op = "error" /\ event.error.kind = "IncorrectValueKind") =>
        LET e == event.error
            received == IF e.to_string_ok THEN BQ \o to_json(e.actual) \o BQ ELSE ""
            expectation ==
                IF Len(e.accepted) = 0 THEN ""
                ELSE IF Len(e.accepted) = 1 THEN ", expected a " \o e.accepted[1]
                ELSE ", expected one of " \o JoinedFromRight(e.accepted, ", ")
        IN  /\ BuiltMessage =
                   "Json deserialize error: invalid type: " \o e.actual.kind \o " "
                       \o received \o expectation \o LocationClause(event.location)
            /\ Occurrences(", expected ", BuiltMessage) =
                   Occurrences(", expected ", received)
                       + Occurrences(", expected ", event.location.path)
                       + (IF Len(e.accepted) = 0 THEN 0 ELSE 1)
            /\ deser = Some(event.result.value)

\* C8 witness: actual is the number 42, accepted is [String], at the root.
C8_Witness ==
    /\ event.op = "error"
    /\ event.error.kind = "IncorrectValueKind"
    /\ event.error.actual.kind = "Integer"
    /\ event.error.accepted = <<"String">>
    /\ event.error.to_string_ok
    /\ event.location.is_origin
    /\ BuiltMessage =
           "Json deserialize error: invalid type: Integer " \o BQ \o "42" \o BQ
               \o ", expected a String."

\* C9: for an unknown-key event the message names the key, then "expected
\* one of" and every accepted key back-quoted, in order, joined by ", ",
\* then the location clause; with no accepted key the location clause
\* follows "one of " directly.
C9_UnknownKeyMessage ==
    (event.op = "error" /\ event.error.kind = "UnknownKey") =>
        LET e == event.error
            quoted == [i \in 1..Len(e.accepted) |-> BQ \o e.accepted[i] \o BQ]
            head == "Json deserialize error: unknown field " \o BQ \o e.key \o BQ
                        \o ", expected one of "
        IN  /\ BuiltMessage =
                   head \o JoinedFromRight(quoted, ", ") \o LocationClause(event.location)
            /\ Len(e.accepted) = 0 =>
                   BuiltMessage = head \o LocationClause(event.location)
            /\ (e.key = "fpp" /\ e.accepted = <<"a", "b">>
                    /\ event.location.path = "settings") =>
                   BuiltMessage =
                       "Json deserialize error: unknown field " \o BQ \o "fpp" \o BQ
                           \o ", expected one of " \o BQ \o "a" \o BQ \o ", "
                           \o BQ \o "b" \o BQ \o " in " \o BQ \o "settings" \o BQ \o "."

\* C9 witness: key fpp, accepted a and b, under the path settings.
C9_Witness ==
    /\ event.op = "error"
    /\ event.error.kind = "UnknownKey"
    /\ event.error.key = "fpp"
    /\ event.error.accepted = <<"a", "b">>
    /\ event.location.path = "settings"
    /\ EndsWith(BuiltMessage, BQ \o "b" \o BQ \o " in " \o BQ \o "settings" \o BQ \o ".")

\* the text of a message before its location clause
BeforeLocation(message, location) ==
    SubSeq(message, 1, Len(message) - Len(LocationClause(location)))

\* the root location
Root == CHOOSE l \in Locations : l.is_origin

\* C10: for each event kind the message is a text that does not depend on
\* the location, followed once by the location clause: "." at the root,
\* " in `<path>`." elsewhere.  A missing-field event gives "Json deserialize
\* error: missing field `<field>`" and an unexpected event "The json payload
\* provided is malformed: <msg>" before the clause.
C10_LocationClause ==
    event.op = "error" =>
        LET e == event.error
            clause == LocationClause(event.location)
            before == BeforeLocation(BuiltMessage, event.location)
            atRoot == error(None, e, Root).value.text
        IN  /\ EndsWith(BuiltMessage, clause)
            /\ BuiltMessage = before \o clause
            /\ atRoot = before \o "."
            /\ Occurrences(clause, BuiltMessage) = 1 + Occurrences(clause, before)
            /\ e.kind = "MissingField" =>
                   before = "Json deserialize error: missing field " \o BQ \o e.field \o BQ
            /\ e.kind = "Unexpected" =>
                   before = "The json payload provided is malformed: " \o e.msg

\* C10 witness: the field id is missing at the root.
C10_Witness ==
    /\ event.op = "error"
    /\ event.error.kind = "MissingField"
    /\ event.error.field = "id"
    /\ event.location.is_origin
    /\ BuiltMessage = "Json deserialize error: missing field " \o BQ \o "id" \o BQ \o "."

\* C11: the conversion of an ErrorCode-capable error e equals
\* from_msg(e.to_string(), e.error_code()): status, code, type and link all
\* come from the one Code e reports, and the message is e's rendering, which
\* is also the rendering of the ResponseError.
C11_FromEqualsFromMsg ==
    origin.how = "from" =>
        /\ origin.code \in Code
        /\ resp = from_msg(origin.err.text, origin.code)
        /\ resp.code = http(origin.code)
        /\ resp.error_code = name(origin.code)
        /\ resp.error_type = type_(origin.code)
        /\ resp.error_link = DocsBase \o name(origin.code)
        /\ resp.message = origin.err.text
        /\ ResponseError_fmt(resp) = origin.err.text

\* C11 witness: a response converted from an invalid-filter error of the
\* search engine, a Code whose status is not 500.
C11_Witness ==
    /\ origin.how = "from"
    /\ origin.err.family = "milli"
    /\ origin.err.sub = "InvalidFilter"
    /\ origin.code = "Filter"
    /\ resp.code = 400
    /\ resp.error_code = "invalid_filter"
    /\ resp.message = "disk failure"

\* C12: in the catalog every Code of type internal has a 5xx status and
\* every Code of type invalid_request or auth has a 4xx status.
C12_TypeAgreesWithStatus ==
    lookup # NoLookup =>
        /\ lookup.type = "internal" => lookup.status \in 500..599
        /\ lookup.type \in {"invalid_request", "auth"} => lookup.status \in 400..499

====
